---- MODULE Spec2Model ----
(***************************************************************************)
(* Corpus resolution and session cache of the Vertex AI RAG agent tools.   *)
(*                                                                         *)
(* Strings are sequences of one-character strings, so that trimming,       *)
(* lower-casing, splitting on '/', substring search and the resource-name  *)
(* pattern are computed character by character as the TypeScript does.     *)
(***************************************************************************)
EXTENDS Integers, Sequences, FiniteSets, TLC

(***************************************************************************)
(* Bounds of the model.                                                    *)
(***************************************************************************)
\* The registry holds at most MaxCorpora corpora at a time.
MaxCorpora == 1

(***************************************************************************)
(* Characters and string primitives (JavaScript String methods).           *)
(***************************************************************************)
UpperChars == <<"A","B","C","D","E","F","G","H","I","J","K","L","M",
                "N","O","P","Q","R","S","T","U","V","W","X","Y","Z">>
LowerChars == <<"a","b","c","d","e","f","g","h","i","j","k","l","m",
                "n","o","p","q","r","s","t","u","v","w","x","y","z">>
DigitChars == <<"0","1","2","3","4","5","6","7","8","9">>
WhitespaceChars == {" ", "\t", "\n"}

Range(f) == {f[i] : i \in DOMAIN f}

\* One character of String.prototype.toLowerCase.
lowerOf == [c \in Range(UpperChars) |->
               LowerChars[CHOOSE i \in DOMAIN UpperChars : UpperChars[i] = c]]

LowerChar(c) == IF c \in DOMAIN lowerOf THEN lowerOf[c] ELSE c

\* String.prototype.toLowerCase
toLowerCase(s) == [i \in 1..Len(s) |-> LowerChar(s[i])]

\* String.prototype.trimStart and trimEnd.
RECURSIVE trimStart(_)
trimStart(s) ==
    IF s = <<>> THEN s
    ELSE IF s[1] \in WhitespaceChars THEN trimStart(Tail(s))
    ELSE s

RECURSIVE trimEnd(_)
trimEnd(s) ==
    IF s = <<>> THEN s
    ELSE IF s[Len(s)] \in WhitespaceChars THEN trimEnd(SubSeq(s, 1, Len(s) - 1))
    ELSE s

\* String.prototype.trim: drops leading and trailing whitespace.
trim(s) == trimEnd(trimStart(s))

\* The first index at or after i (zero-based) where needle occurs in hay.
RECURSIVE indexFrom(_, _, _)
indexFrom(hay, needle, i) ==
    IF i + Len(needle) > Len(hay) THEN -1
    ELSE IF SubSeq(hay, i + 1, i + Len(needle)) = needle THEN i
    ELSE indexFrom(hay, needle, i + 1)

\* String.prototype.indexOf: zero-based index of the first occurrence of
\* needle in hay, -1 when there is none.
indexOf(hay, needle) == indexFrom(hay, needle, 0)

\* The position of the last '/' in s at or before position i, 0 if none.
RECURSIVE lastSlash(_, _)
lastSlash(s, i) ==
    IF i = 0 THEN 0
    ELSE IF s[i] = "/" THEN i
    ELSE lastSlash(s, i - 1)

\* s.split('/').pop(): the text after the last '/', the whole string when it
\* holds no '/'.
splitPop(s) == SubSeq(s, lastSlash(s, Len(s)) + 1, Len(s))

\* s.split('/'): the segments between the '/' characters, in order.
RECURSIVE splitFrom(_, _, _)
splitFrom(s, start, i) ==
    IF i > Len(s) THEN <<SubSeq(s, start, Len(s))>>
    ELSE IF s[i] = "/" THEN <<SubSeq(s, start, i - 1)>> \o splitFrom(s, i + 1, i + 1)
    ELSE splitFrom(s, start, i + 1)

split(s) == splitFrom(s, 1, 1)

\* The character class [a-zA-Z0-9_-].
IdChars == Range(UpperChars) \cup Range(LowerChars) \cup Range(DigitChars) \cup {"_", "-"}

\* Variant: the characters outside the class are dropped.
replaceSpecial_dropped(s) == SelectSeq(s, LAMBDA c : c \in IdChars)

\* s.replace(/[^a-zA-Z0-9_-]/g, '_')
replaceSpecial(s) == [i \in 1..Len(s) |-> IF s[i] \in IdChars THEN s[i] ELSE "_"]

(***************************************************************************)
(* Configuration (config.ts): the environment of the process.              *)
(***************************************************************************)
PROJECT_ID == <<"p">>
LOCATION == <<"l">>

sProjects == <<"p","r","o","j","e","c","t","s">>
sLocations == <<"l","o","c","a","t","i","o","n","s">>
sRagCorpora == <<"r","a","g","C","o","r","p","o","r","a">>

\* /^projects\/[^/]+\/locations\/[^/]+\/ragCorpora\/[^/]+$/
matchesResourceName(s) ==
    LET seg == split(s)
    IN  /\ Len(seg) = 6
        /\ seg[1] = sProjects
        /\ seg[2] # <<>>
        /\ seg[3] = sLocations
        /\ seg[4] # <<>>
        /\ seg[5] = sRagCorpora
        /\ seg[6] # <<>>

\* `projects/${PROJECT_ID}/locations/${LOCATION}/ragCorpora/${id}`
resourceNameOf(id) ==
    sProjects \o <<"/">> \o PROJECT_ID \o <<"/">> \o sLocations \o <<"/">>
        \o LOCATION \o <<"/">> \o sRagCorpora \o <<"/">> \o id

getCorpusResourceName(corpusName) ==
    IF matchesResourceName(corpusName) THEN corpusName
    ELSE LET popped == splitPop(corpusName)
             corpusId == IF popped # <<>> THEN popped ELSE corpusName
             cleanId == replaceSpecial(corpusId)
         IN  resourceNameOf(cleanId)

(***************************************************************************)
(* Session state (ToolContext.state): current_corpus and the               *)
(* corpus_exists_<name> flags.  A key that was never set reads undefined.  *)
(***************************************************************************)
Undefined == [defined |-> FALSE]
Defined(v) == [defined |-> TRUE, value |-> v]

\* JavaScript truthiness of a string-or-undefined value.
Truthy(v) == v.defined /\ v.value # <<>>

\* toolContext.state.get(`corpus_exists_${corpusName}`), as a condition.
\* Variant: the key is compared after trimming.
existsFlag_trimmed(st, corpusName) ==
    \E k \in DOMAIN st.corpus_exists :
        trim(k) = trim(corpusName) /\ st.corpus_exists[k]

existsFlag(st, corpusName) ==
    /\ corpusName \in DOMAIN st.corpus_exists
    /\ st.corpus_exists[corpusName]

\* toolContext.state.set(`corpus_exists_${corpusName}`, value)
setExistsFlag(st, corpusName, value) ==
    [st EXCEPT !.corpus_exists =
        [k \in (DOMAIN st.corpus_exists) \cup {corpusName} |->
            IF k = corpusName THEN value ELSE st.corpus_exists[k]]]

setCurrentCorpus(corpusName, st) ==
    [st EXCEPT !.current_corpus = Defined(corpusName)]

\* Variant: the flag is deleted instead of being reset.
invalidateCorpusExistsState_removesKey(corpusName, st) ==
    [st EXCEPT !.corpus_exists =
        [k \in (DOMAIN st.corpus_exists) \ {corpusName} |-> st.corpus_exists[k]]]

invalidateCorpusExistsState(corpusName, st) ==
    IF existsFlag(st, corpusName)
    THEN setExistsFlag(st, corpusName, FALSE)
    ELSE st

(***************************************************************************)
(* The registry as the tools see it.  A listing either fails (the call     *)
(* throws) or returns the corpora in the registry's order.                 *)
(***************************************************************************)
ListingFailed == [ok |-> FALSE, corpora |-> <<>>]
ListingOf(corpora) == [ok |-> TRUE, corpora |-> corpora]

\* corpora.find(...): of the indices of the corpora satisfying the predicate,
\* the first, 0 if there is none.
findIndex(hits) ==
    IF hits = {} THEN 0 ELSE CHOOSE i \in hits : \A j \in hits : i <= j

(***************************************************************************)
(* checkCorpusExists: the cache, then one listing and an exact comparison. *)
(* ret is the boolean returned, state the session state afterwards, calls  *)
(* the registry calls made, cached whether the cache answered.             *)
(***************************************************************************)
\* Variant: the match branch sets current_corpus unconditionally.
recordMatch_overwrites(corpusName, st) ==
    setCurrentCorpus(corpusName, setExistsFlag(st, corpusName, TRUE))

\* The state update of the match branch: the flag, and current_corpus when
\* it has no value.
recordMatch(corpusName, st) ==
    LET recorded == setExistsFlag(st, corpusName, TRUE)
    IN  IF ~Truthy(recorded.current_corpus)
        THEN setCurrentCorpus(corpusName, recorded)
        ELSE recorded

\* Variant: a lookup that finds nothing records a negative flag.
checkCorpusExists_recordsMiss(corpusName, st, listing) ==
    IF existsFlag(st, corpusName)
    THEN [ret |-> TRUE, state |-> st, calls |-> <<>>, cached |-> TRUE]
    ELSE LET corpusResourceName == getCorpusResourceName(corpusName)
             hit(c) == c.name = corpusResourceName \/ c.displayName = corpusName
         IN  IF listing.ok /\ findIndex({n \in DOMAIN listing.corpora : hit(listing.corpora[n])}) # 0
             THEN [ret |-> TRUE, state |-> recordMatch(corpusName, st),
                   calls |-> <<"listRagCorpora">>, cached |-> FALSE]
             ELSE [ret |-> FALSE, state |-> setExistsFlag(st, corpusName, FALSE),
                   calls |-> <<"listRagCorpora">>, cached |-> FALSE]

checkCorpusExists(corpusName, st, listing) ==
    IF PROJECT_ID = <<>> \/ LOCATION = <<>>
    THEN [ret |-> FALSE, state |-> st, calls |-> <<>>, cached |-> FALSE]
    ELSE IF existsFlag(st, corpusName)
    THEN [ret |-> TRUE, state |-> st, calls |-> <<>>, cached |-> TRUE]
    ELSE IF ~listing.ok
    THEN [ret |-> FALSE, state |-> st, calls |-> <<"listRagCorpora">>, cached |-> FALSE]
    ELSE LET corpusResourceName == getCorpusResourceName(corpusName)
             hit(c) == c.name = corpusResourceName \/ c.displayName = corpusName
         IN  IF findIndex({n \in DOMAIN listing.corpora : hit(listing.corpora[n])}) # 0
             THEN [ret |-> TRUE,
                   state |-> recordMatch(corpusName, st),
                   calls |-> <<"listRagCorpora">>, cached |-> FALSE]
             ELSE [ret |-> FALSE, state |-> st,
                   calls |-> <<"listRagCorpora">>, cached |-> FALSE]

(***************************************************************************)
(* findBestMatchingCorpus: ranked case-insensitive substring matching.     *)
(***************************************************************************)
NoMatch == [found |-> FALSE, resourceName |-> <<>>, displayName |-> <<>>]

\* The three candidates of one corpus, in the order the code tries them.
candidatesOf(corpus) ==
    << [value |-> corpus.displayName, preference |-> 30],
       [value |-> splitPop(corpus.name), preference |-> 20],
       [value |-> corpus.name, preference |-> 10] >>

\* Variant: the candidate is compared without lower-casing it.
candidateIndex_caseSensitive(candidate, normalizedQuery) ==
    indexOf(candidate.value, normalizedQuery)

\* Variant: a later occurrence scores higher.
candidateScore_laterIsBetter(candidate, normalizedQuery) ==
    Len(normalizedQuery) * 100 + candidate.preference
        + indexOf(toLowerCase(candidate.value), normalizedQuery)

\* The score of one candidate, -1 standing for "no occurrence" (continue).
candidateIndex(candidate, normalizedQuery) ==
    indexOf(toLowerCase(candidate.value), normalizedQuery)

candidateScore(candidate, normalizedQuery) ==
    Len(normalizedQuery) * 100 + candidate.preference
        - candidateIndex(candidate, normalizedQuery)

\* Variant: a later candidate replaces the best match on an equal score too.
RECURSIVE scanCorpora_lastOfTiesWins(_, _, _, _, _)
scanCorpora_lastOfTiesWins(corpora, normalizedQuery, i, k, best) ==
    IF i > Len(corpora) THEN best
    ELSE IF k > 3
    THEN scanCorpora_lastOfTiesWins(corpora, normalizedQuery, i + 1, 1, best)
    ELSE LET candidate == candidatesOf(corpora[i])[k]
             index == indexOf(toLowerCase(candidate.value), normalizedQuery)
             score == Len(normalizedQuery) * 100 + candidate.preference - index
             next ==
                 IF index = -1 THEN best
                 ELSE IF ~best.match.found \/ score >= best.score
                 THEN [score |-> score,
                       match |-> [found |-> TRUE,
                                  resourceName |-> corpora[i].name,
                                  displayName |-> corpora[i].displayName]]
                 ELSE best
         IN  scanCorpora_lastOfTiesWins(corpora, normalizedQuery, i, k + 1, next)

\* The loop body for candidate k of corpus i: a strictly greater score
\* replaces the best match so far.
RECURSIVE scanCorpora(_, _, _, _, _)
scanCorpora(corpora, normalizedQuery, i, k, best) ==
    IF i > Len(corpora) THEN best
    ELSE IF k > 3 THEN scanCorpora(corpora, normalizedQuery, i + 1, 1, best)
    ELSE LET candidate == candidatesOf(corpora[i])[k]
             score == candidateScore(candidate, normalizedQuery)
             next ==
                 IF candidateIndex(candidate, normalizedQuery) = -1 THEN best
                 ELSE IF ~best.match.found \/ score > best.score
                 THEN [score |-> score,
                       match |-> [found |-> TRUE,
                                  resourceName |-> corpora[i].name,
                                  displayName |-> corpora[i].displayName]]
                 ELSE best
         IN  scanCorpora(corpora, normalizedQuery, i, k + 1, next)

bestMatchIn(corpora, normalizedQuery) ==
    scanCorpora(corpora, normalizedQuery, 1, 1, [score |-> 0, match |-> NoMatch]).match

\* Variant: the query is lower-cased but not trimmed.
findBestMatchingCorpus_untrimmed(corpusName, listing) ==
    LET normalizedQuery == toLowerCase(corpusName)
    IN  IF normalizedQuery = <<>> THEN [match |-> NoMatch, calls |-> <<>>]
        ELSE IF ~listing.ok
        THEN [match |-> NoMatch, calls |-> <<"listRagCorpora">>]
        ELSE [match |-> bestMatchIn(listing.corpora, normalizedQuery),
              calls |-> <<"listRagCorpora">>]

\* match is the result (NoMatch for null), calls the registry calls made.
findBestMatchingCorpus(corpusName, listing) ==
    LET normalizedQuery == toLowerCase(trim(corpusName))
    IN  IF normalizedQuery = <<>> THEN [match |-> NoMatch, calls |-> <<>>]
        ELSE IF PROJECT_ID = <<>> \/ LOCATION = <<>>
        THEN [match |-> NoMatch, calls |-> <<>>]
        ELSE IF ~listing.ok
        THEN [match |-> NoMatch, calls |-> <<"listRagCorpora">>]
        ELSE [match |-> bestMatchIn(listing.corpora, normalizedQuery),
              calls |-> <<"listRagCorpora">>]

(***************************************************************************)
(* resolveCorpusResourceName: a full resource name is returned as given,   *)
(* anything else is looked up in one listing by constructed name, then by  *)
(* display name.                                                           *)
(***************************************************************************)
resolveCorpusResourceName(corpusName, listing) ==
    IF matchesResourceName(corpusName)
    THEN [match |-> [found |-> TRUE, resourceName |-> corpusName, displayName |-> <<>>],
          calls |-> <<>>]
    ELSE IF ~listing.ok
    THEN [match |-> NoMatch, calls |-> <<"listRagCorpora">>]
    ELSE LET constructed == getCorpusResourceName(corpusName)
             byName(c) == c.name = constructed
             byDisplay(c) == c.displayName = corpusName
             i == findIndex({n \in DOMAIN listing.corpora : byName(listing.corpora[n])})
             j == IF i # 0 THEN i ELSE findIndex({n \in DOMAIN listing.corpora : byDisplay(listing.corpora[n])})
         IN  IF j = 0 \/ listing.corpora[j].name = <<>>
             THEN [match |-> NoMatch, calls |-> <<"listRagCorpora">>]
             ELSE [match |-> [found |-> TRUE,
                              resourceName |-> listing.corpora[j].name,
                              displayName |-> listing.corpora[j].displayName],
                   calls |-> <<"listRagCorpora">>]

(***************************************************************************)
(* parsePaths and runImportOperations (shared.ts).  A path is modelled by  *)
(* the branch of parsePaths it takes: "blank" (empty or whitespace),       *)
(* "docs" (docs.google.com URL), "drive" (drive.google.com URL), "gcs"     *)
(* (gs:// prefix), "other" (anything else).                                *)
(***************************************************************************)
PathKinds == {"blank", "docs", "drive", "gcs", "other"}

SelectKinds(paths, kinds) == SelectSeq(paths, LAMBDA p : p \in kinds)

parsePaths(paths) ==
    [validated |-> SelectKinds(paths, {"docs", "drive", "gcs"}),
     invalid |-> SelectKinds(paths, {"blank", "other"}),
     conversions |-> SelectKinds(paths, {"docs"}),
     gcsPaths |-> SelectKinds(paths, {"gcs"}),
     driveFileIds |-> SelectKinds(paths, {"docs", "drive"})]

\* The import configurations addData builds: one Drive configuration when
\* there are Drive file ids, none otherwise.
importConfigs(pathsInfo) ==
    IF Len(pathsInfo.driveFileIds) > 0 THEN <<pathsInfo.driveFileIds>> ELSE <<>>

\* runImportOperations: requestOk says whether importRagFiles returned an
\* operation (it throws otherwise), imported is the importedRagFilesCount of
\* the finished operation, -1 standing for an operation that failed (the
\* failure is swallowed and adds nothing).
runImportOperations(configs, requestOk, imported) ==
    IF Len(configs) = 0 THEN [threw |-> FALSE, total |-> 0, calls |-> <<>>]
    ELSE IF ~requestOk THEN [threw |-> TRUE, total |-> 0, calls |-> <<"importRagFiles">>]
    ELSE [threw |-> FALSE,
          total |-> IF imported < 0 THEN 0 ELSE imported,
          calls |-> <<"importRagFiles">>]

(***************************************************************************)
(* The state: the registry's corpora in listing order, the session state   *)
(* of the one conversation, the record of the last tool invocation (what   *)
(* it was given, what it returned, which registry calls it made), the ids  *)
(* the registry has assigned so far (it never assigns an id twice), and    *)
(* the tool calls suspended at an await where calls run interleaved        *)
(* (empty where the runtime runs one invocation at a time).                *)
(***************************************************************************)
VARIABLES registry, state, last, assigned, inflight

vars == <<registry, state, last, assigned, inflight>>

sEmpty == <<>>
sBlank == <<" ">>
sAb == <<"A", "b">>
sAbc == <<"A", "b", "c">>
sN1 == <<"n", "1">>

\* The ids the registry assigns to corpora.
CorpusIds == {sN1, <<"n", "2">>, <<"n", "3">>}

\* The corpus_name arguments the tools are called with.
Identifiers == {sEmpty, sBlank, sAb, resourceNameOf(sN1)}

\* The query arguments of ragQuery.
Queries == {sBlank, <<"q">>}

\* The paths arguments of addData.
PathLists == {<<"other">>, <<"docs", "gcs">>}

\* Display names of the corpora present when the session starts.
InitDisplayNames == {sAbc}

NoHandle == <<>>

NoCall ==
    [op |-> "none", corpus_name |-> <<>>, query |-> <<>>, ctx |-> FALSE,
     target |-> <<>>, status |-> "none", outcome |-> "none",
     check |-> "none", cached |-> FALSE, checkState |-> [current_corpus |-> Undefined, corpus_exists |-> <<>>],
     calls |-> <<>>, unavailable |-> FALSE,
     listed |-> FALSE, listing |-> <<>>, handle |-> NoHandle,
     files_added |-> 0, paths |-> <<>>, imported |-> 0]

InitState == [current_corpus |-> Undefined, corpus_exists |-> <<>>]

\* The registry when the session starts: empty, or one corpus.
InitRegistries ==
    {<<>>}
    \cup {<<[name |-> resourceNameOf(id), displayName |-> d]>> :
            id \in CorpusIds, d \in InitDisplayNames}

Names(corpora) == {corpora[i].name : i \in DOMAIN corpora}

Init ==
    /\ registry \in InitRegistries
    /\ state = InitState
    /\ last = NoCall
    /\ assigned = {id \in CorpusIds : resourceNameOf(id) \in Names(registry)}
    /\ inflight = <<>>

\* The fields of `last` every invocation sets.
Call(op, corpusName, ctx) ==
    [NoCall EXCEPT !.op = op, !.corpus_name = corpusName, !.ctx = ctx,
                   !.target = corpusName, !.checkState = state]

\* The fields of `last` the existence pre-check sets; unavailable records
\* that a listing call of the invocation threw.
Checked(call, chk, listing) ==
    [call EXCEPT !.check = IF chk.ret THEN "true" ELSE "false",
                 !.cached = chk.cached,
                 !.checkState = chk.state,
                 !.calls = chk.calls,
                 !.unavailable = (chk.calls # <<>> /\ ~listing.ok)]

\* The fields of `last` a resolution sets.
Resolved(call, res, listing) ==
    [call EXCEPT !.calls = call.calls \o res.calls,
                 !.unavailable = (call.unavailable \/ (res.calls # <<>> /\ ~listing.ok)),
                 !.listed = (res.calls # <<>> /\ listing.ok),
                 !.listing = IF res.calls # <<>> /\ listing.ok THEN listing.corpora ELSE <<>>,
                 !.handle = IF res.match.found THEN res.match.resourceName ELSE NoHandle]

\* Variant: a failed registry request is rethrown instead of being reported.
Returned_rethrows(call, status, outcome) ==
    IF outcome \in {"RetrieveError", "CreateError", "DeleteError", "AddError",
                    "InfoError", "ListError"}
    THEN [call EXCEPT !.status = "uncaught"]
    ELSE [call EXCEPT !.status = status, !.outcome = outcome]

Returned(call, status, outcome) ==
    [call EXCEPT !.status = status, !.outcome = outcome]

\* client.listRagCorpora: the corpora of the registry, or a failure.
listRagCorpora(ok) == IF ok THEN ListingOf(registry) ELSE ListingFailed

(***************************************************************************)
(* ragQuery.execute.  listOk: the listing call succeeds; retrieved: what   *)
(* retrieveContexts does ("throws", "empty", "results").                   *)
(***************************************************************************)
\* Variant: current_corpus is not consulted.
resolvedCorpusInputOf_ignoresState(corpusName, st) == trim(corpusName)

\* Variant: the explicit identifier is used untrimmed.
resolvedCorpusInputOf_untrimmed(corpusName, st) ==
    IF corpusName # <<>> THEN corpusName
    ELSE IF Truthy(st.current_corpus) THEN st.current_corpus.value
    ELSE <<>>

\* corpusName?.trim() || stateCorpus: <<>> stands for "neither".
resolvedCorpusInputOf(corpusName, st) ==
    IF trim(corpusName) # <<>> THEN trim(corpusName)
    ELSE IF Truthy(st.current_corpus) THEN st.current_corpus.value
    ELSE <<>>

\* Variant: the resource name is the canonical name.
canonicalCorpusNameOf_resourceName(match) == match.resourceName

\* match.displayName || match.resourceName
canonicalCorpusNameOf(match) ==
    IF match.displayName # <<>> THEN match.displayName ELSE match.resourceName

RagQuery(corpusName, query, ctx, listOk, retrieved) ==
    LET call == [Call("ragQuery", corpusName, ctx) EXCEPT !.query = query]
        resolvedCorpusInput == resolvedCorpusInputOf(corpusName, state)
        targeted == [call EXCEPT !.target = resolvedCorpusInput]
        listing == listRagCorpora(listOk)
        res == findBestMatchingCorpus(resolvedCorpusInput, listing)
        resolved == Resolved(targeted, res, listing)
    IN  /\ UNCHANGED registry
        /\ IF trim(query) = <<>>
           THEN /\ last' = Returned(call, "error", "EmptyQuery")
                /\ UNCHANGED state
           ELSE IF PROJECT_ID = <<>> \/ LOCATION = <<>>
           THEN /\ last' = Returned(call, "error", "NoConfig")
                /\ UNCHANGED state
           ELSE IF ~ctx
           THEN /\ last' = Returned(call, "error", "NoContext")
                /\ UNCHANGED state
           ELSE IF resolvedCorpusInput = <<>>
           THEN /\ last' = Returned(targeted, "error", "NoTarget")
                /\ UNCHANGED state
           ELSE IF ~res.match.found
           THEN /\ last' = Returned(resolved, "error", "NotFound")
                /\ UNCHANGED state
           ELSE LET sent == [resolved EXCEPT !.calls = @ \o <<"retrieveContexts">>]
                IN  CASE retrieved = "throws" ->
                            /\ last' = Returned(sent, "error", "RetrieveError")
                            /\ UNCHANGED state
                      [] retrieved = "empty" ->
                            /\ last' = Returned(sent, "warning", "NoResults")
                            /\ UNCHANGED state
                      [] retrieved = "results" ->
                            /\ last' = Returned(sent, "success", "Queried")
                            /\ state' = setCurrentCorpus(canonicalCorpusNameOf(res.match), state)

(***************************************************************************)
(* The registry's mutations, as the tools use them.                        *)
(***************************************************************************)
\* createRagCorpus + operation.promise(): the registry refuses an empty
\* display name and a corpus beyond its capacity; otherwise it adds the
\* corpus under the id it assigns.
canCreate(displayName, id) ==
    /\ displayName # <<>>
    /\ Len(registry) < MaxCorpora
    /\ id \notin assigned

\* Variant: the operation is not awaited, the corpus is not there yet.
created_pending(displayName, id) == registry

created(displayName, id) ==
    Append(registry, [name |-> resourceNameOf(id), displayName |-> displayName])

\* deleteRagCorpus + operation.promise(): removes the corpus of that name.
deleted(name) == SelectSeq(registry, LAMBDA c : c.name # name)

(***************************************************************************)
(* createCorpus.execute.  createOk: the create request and its operation   *)
(* succeed; id: the id the registry assigns.                               *)
(***************************************************************************)
CreateCorpus(corpusName, ctx, listOk, createOk, id) ==
    LET call == Call("createCorpus", corpusName, ctx)
        chk == checkCorpusExists(corpusName, state, listRagCorpora(listOk))
        checked == IF ctx THEN Checked(call, chk, listRagCorpora(listOk)) ELSE call
        displayName == replaceSpecial(corpusName)
        sent == [checked EXCEPT !.calls = @ \o <<"createRagCorpus">>]
    IN  /\ IF PROJECT_ID = <<>> \/ LOCATION = <<>>
           THEN /\ last' = Returned(call, "error", "NoConfig")
                /\ UNCHANGED <<registry, state>>
           ELSE IF ctx /\ chk.ret
           THEN /\ last' = Returned(checked, "info", "AlreadyExists")
                /\ state' = chk.state
                /\ UNCHANGED registry
           ELSE IF createOk /\ canCreate(displayName, id)
           THEN /\ registry' = created(displayName, id)
                /\ last' = Returned([sent EXCEPT !.handle = resourceNameOf(id)],
                                    "success", "Created")
                /\ state' = IF ctx
                            THEN setCurrentCorpus(corpusName,
                                     setExistsFlag(state, corpusName, TRUE))
                            ELSE state
           ELSE /\ last' = Returned(sent, "error", "CreateError")
                /\ UNCHANGED <<registry, state>>
        /\ assigned' = assigned \cup
               {i \in CorpusIds : resourceNameOf(i) \in Names(registry')}

(***************************************************************************)
(* deleteCorpus.execute.  listOk1: the listing of the pre-check; listOk2:  *)
(* the listing of the resolution; deleteOk: the delete request and its     *)
(* operation succeed.                                                      *)
(***************************************************************************)
DeleteCorpus(corpusName, ctx, listOk1, listOk2, deleteOk) ==
    LET call == Call("deleteCorpus", corpusName, ctx)
        chk == checkCorpusExists(corpusName, state, listRagCorpora(listOk1))
        checked == IF ctx THEN Checked(call, chk, listRagCorpora(listOk1)) ELSE call
        afterCheck == IF ctx THEN chk.state ELSE state
        listing == listRagCorpora(listOk2)
        res == resolveCorpusResourceName(corpusName, listing)
        resolved == Resolved(checked, res, listing)
        sent == [resolved EXCEPT !.calls = @ \o <<"deleteRagCorpus">>]
    IN  /\ IF PROJECT_ID = <<>> \/ LOCATION = <<>>
           THEN /\ last' = Returned(call, "error", "NoConfig")
                /\ UNCHANGED <<registry, state>>
           ELSE IF ctx /\ ~chk.ret
           THEN /\ last' = Returned(checked, "error", "DoesNotExist")
                /\ state' = afterCheck
                /\ UNCHANGED registry
           ELSE IF ~res.match.found
           THEN /\ last' = Returned(resolved, "error", "NotFound")
                /\ state' = afterCheck
                /\ UNCHANGED registry
           ELSE IF deleteOk /\ res.match.resourceName \in Names(registry)
           THEN /\ registry' = deleted(res.match.resourceName)
                /\ last' = Returned(sent, "success", "Deleted")
                /\ state' = IF ctx
                            THEN invalidateCorpusExistsState(corpusName, afterCheck)
                            ELSE afterCheck
           ELSE /\ last' = Returned(sent, "error", "DeleteError")
                /\ state' = afterCheck
                /\ UNCHANGED registry

(***************************************************************************)
(* addData.execute.  requestOk: importRagFiles returns an operation;       *)
(* imported: the importedRagFilesCount of the operation, -1 when the       *)
(* operation fails.  The record of the call keeps the paths given and,     *)
(* when the handler got as far as its result, what the operation reported. *)
(***************************************************************************)
\* totalAdded || pathsInfo.validated.length
filesAddedOf(totalAdded, pathsInfo) ==
    IF totalAdded # 0 THEN totalAdded ELSE Len(pathsInfo.validated)

AddData(corpusName, paths, ctx, listOk1, listOk2, requestOk, imported) ==
    LET call == [Call("addData", corpusName, ctx) EXCEPT !.paths = paths]
        pathsInfo == parsePaths(paths)
        chk == checkCorpusExists(corpusName, state, listRagCorpora(listOk1))
        checked == IF ctx THEN Checked(call, chk, listRagCorpora(listOk1)) ELSE call
        afterCheck == IF ctx THEN chk.state ELSE state
        listing == listRagCorpora(listOk2)
        res == resolveCorpusResourceName(corpusName, listing)
        resolved == Resolved(checked, res, listing)
        run == runImportOperations(importConfigs(pathsInfo),
                   requestOk /\ res.match.resourceName \in Names(registry), imported)
        ran == [resolved EXCEPT !.calls = @ \o run.calls]
    IN  /\ UNCHANGED registry
        /\ IF PROJECT_ID = <<>> \/ LOCATION = <<>>
           THEN /\ last' = Returned(call, "error", "NoConfig")
                /\ UNCHANGED state
           ELSE IF Len(pathsInfo.validated) = 0
           THEN /\ last' = Returned(call, "error", "NoValidPaths")
                /\ UNCHANGED state
           ELSE IF ~ctx \/ ~chk.ret
           THEN /\ last' = Returned(checked, "error", "DoesNotExist")
                /\ state' = afterCheck
           ELSE IF ~res.match.found
           THEN /\ last' = Returned(resolved, "error", "NotFound")
                /\ state' = afterCheck
           ELSE IF run.threw
           THEN /\ last' = Returned(ran, "error", "AddError")
                /\ state' = afterCheck
           ELSE /\ last' = Returned(
                             [ran EXCEPT !.files_added = filesAddedOf(run.total, pathsInfo),
                                         !.imported = imported],
                             "success", "Added")
                /\ state' = IF ~Truthy(afterCheck.current_corpus)
                            THEN setCurrentCorpus(corpusName, afterCheck)
                            ELSE afterCheck

(***************************************************************************)
(* getCorpusInfo.execute.  getOk: getRagCorpus succeeds; filesOk:          *)
(* listRagFiles succeeds (its failure is swallowed).                       *)
(***************************************************************************)
GetCorpusInfo(corpusName, ctx, listOk1, listOk2, getOk, filesOk) ==
    LET call == Call("getCorpusInfo", corpusName, ctx)
        chk == checkCorpusExists(corpusName, state, listRagCorpora(listOk1))
        checked == IF ctx THEN Checked(call, chk, listRagCorpora(listOk1)) ELSE call
        afterCheck == IF ctx THEN chk.state ELSE state
        listing == listRagCorpora(listOk2)
        res == resolveCorpusResourceName(corpusName, listing)
        resolved == Resolved(checked, res, listing)
        got == [resolved EXCEPT !.calls = @ \o <<"getRagCorpus">>]
        filed == [got EXCEPT !.calls = @ \o <<"listRagFiles">>]
    IN  /\ UNCHANGED registry
        /\ IF PROJECT_ID = <<>> \/ LOCATION = <<>>
           THEN /\ last' = Returned(call, "error", "NoConfig")
                /\ UNCHANGED state
           ELSE IF ctx /\ ~chk.ret
           THEN /\ last' = Returned(checked, "error", "DoesNotExist")
                /\ state' = afterCheck
           ELSE IF ~res.match.found
           THEN /\ last' = Returned(resolved, "error", "NotFound")
                /\ state' = afterCheck
           ELSE IF ~(getOk /\ res.match.resourceName \in Names(registry))
           THEN /\ last' = Returned(got, "error", "InfoError")
                /\ state' = afterCheck
           ELSE /\ last' = Returned([filed EXCEPT !.files_added = IF filesOk THEN 1 ELSE 0],
                                    "success", "Info")
                /\ state' = afterCheck

(***************************************************************************)
(* deleteDocument.execute.  deleteOk: the deleteRagFile request and its    *)
(* operation succeed.                                                      *)
(***************************************************************************)
DeleteDocument(corpusName, ctx, listOk1, listOk2, deleteOk) ==
    LET call == Call("deleteDocument", corpusName, ctx)
        chk == checkCorpusExists(corpusName, state, listRagCorpora(listOk1))
        checked == IF ctx THEN Checked(call, chk, listRagCorpora(listOk1)) ELSE call
        afterCheck == IF ctx THEN chk.state ELSE state
        listing == listRagCorpora(listOk2)
        res == resolveCorpusResourceName(corpusName, listing)
        resolved == Resolved(checked, res, listing)
        sent == [resolved EXCEPT !.calls = @ \o <<"deleteRagFile">>]
    IN  /\ UNCHANGED registry
        /\ IF PROJECT_ID = <<>> \/ LOCATION = <<>>
           THEN /\ last' = Returned(call, "error", "NoConfig")
                /\ UNCHANGED state
           ELSE IF ctx /\ ~chk.ret
           THEN /\ last' = Returned(checked, "error", "DoesNotExist")
                /\ state' = afterCheck
           ELSE IF ~res.match.found
           THEN /\ last' = Returned(resolved, "error", "NotFound")
                /\ state' = afterCheck
           ELSE IF deleteOk /\ res.match.resourceName \in Names(registry)
           THEN /\ last' = Returned(sent, "success", "DocumentDeleted")
                /\ state' = afterCheck
           ELSE /\ last' = Returned(sent, "error", "DeleteError")
                /\ state' = afterCheck

(***************************************************************************)
(* listCorpora.execute                                                     *)
(***************************************************************************)
ListCorpora(listOk) ==
    LET call == [Call("listCorpora", <<>>, FALSE) EXCEPT !.calls = <<"listRagCorpora">>]
    IN  /\ UNCHANGED <<registry, state>>
        /\ IF PROJECT_ID = <<>> \/ LOCATION = <<>>
           THEN last' = Returned(Call("listCorpora", <<>>, FALSE), "error", "NoConfig")
           ELSE IF listOk
           THEN last' = Returned([call EXCEPT !.listed = TRUE, !.listing = registry],
                                 "success", "Listed")
           ELSE last' = Returned([call EXCEPT !.unavailable = TRUE],
                                 "error", "ListError")

(***************************************************************************)
(* The session: the agent runtime runs one tool invocation at a time.      *)
(***************************************************************************)
\* The ids the registry may assign to a new corpus.
AssignableIds ==
    LET free == CorpusIds \ assigned
    IN  IF free = {} THEN CorpusIds ELSE free

\* A handler stops at the first registry call that fails, so the registry's
\* behaviour during one invocation is the position of that call.  Without a
\* tool context the pre-check and its listing are skipped.
Faults(ctx) == IF ctx THEN {"none", "list1", "list2", "request"}
               ELSE {"none", "list2", "request"}

\* What the import operation reports when importRagFiles went through.
ImportResults == -1..1

\* The turn ends: the runtime hands the tool's result to the agent, and the
\* session is ready for the next invocation.
TurnEnds ==
    /\ last # NoCall
    /\ last' = NoCall
    /\ UNCHANGED <<registry, state, assigned, inflight>>

\* The agent invokes a tool with some arguments; the registry behaves in
\* some way while the handler runs.
InvokeRagQuery ==
    /\ last = NoCall
    /\ UNCHANGED <<assigned, inflight>>
    /\ \E corpusName \in Identifiers, query \in Queries, ctx \in BOOLEAN,
          listOk \in BOOLEAN, retrieved \in {"throws", "empty", "results"} :
            /\ ~listOk => retrieved = "throws"
            /\ RagQuery(corpusName, query, ctx, listOk, retrieved)

InvokeCreateCorpus ==
    /\ last = NoCall
    /\ UNCHANGED inflight
    /\ \E corpusName \in Identifiers, ctx \in BOOLEAN, listOk \in BOOLEAN,
          createOk \in BOOLEAN, id \in AssignableIds :
            /\ ~ctx => listOk
            /\ CreateCorpus(corpusName, ctx, listOk, createOk, id)

InvokeDeleteCorpus ==
    /\ last = NoCall
    /\ UNCHANGED <<assigned, inflight>>
    /\ \E corpusName \in Identifiers, ctx \in BOOLEAN :
          \E fault \in Faults(ctx) :
            DeleteCorpus(corpusName, ctx, fault # "list1", fault # "list2",
                         fault # "request")

InvokeAddData ==
    /\ last = NoCall
    /\ UNCHANGED <<assigned, inflight>>
    /\ \E corpusName \in Identifiers, paths \in PathLists, ctx \in BOOLEAN :
          \E fault \in Faults(ctx), imported \in ImportResults :
            /\ fault # "none" => imported = 0
            /\ AddData(corpusName, paths, ctx, fault # "list1", fault # "list2",
                       fault # "request", imported)

InvokeGetCorpusInfo ==
    /\ last = NoCall
    /\ UNCHANGED <<assigned, inflight>>
    /\ \E corpusName \in Identifiers, ctx \in BOOLEAN :
          \E fault \in Faults(ctx), filesOk \in BOOLEAN :
            /\ fault # "none" => filesOk
            /\ GetCorpusInfo(corpusName, ctx, fault # "list1", fault # "list2",
                             fault # "request", filesOk)

InvokeDeleteDocument ==
    /\ last = NoCall
    /\ UNCHANGED <<assigned, inflight>>
    /\ \E corpusName \in Identifiers, ctx \in BOOLEAN :
          \E fault \in Faults(ctx) :
            DeleteDocument(corpusName, ctx, fault # "list1", fault # "list2",
                           fault # "request")

InvokeListCorpora ==
    /\ last = NoCall
    /\ UNCHANGED <<assigned, inflight>>
    /\ \E listOk \in BOOLEAN : ListCorpora(listOk)

Next ==
    \/ InvokeRagQuery
    \/ InvokeCreateCorpus
    \/ InvokeDeleteCorpus
    \/ InvokeAddData
    \/ InvokeGetCorpusInfo
    \/ InvokeDeleteDocument
    \/ InvokeListCorpora
    \/ TurnEnds

Spec == Init /\ [][Next]_vars

(***************************************************************************)
(* Vocabulary of the properties.                                           *)
(***************************************************************************)
\* The tools that resolve a corpus handle.
ResolvingOps == {"ragQuery", "addData", "getCorpusInfo", "deleteCorpus", "deleteDocument"}

\* The outcomes of ragQuery once it has reached its target resolution.
AfterResolution == {"NotFound", "RetrieveError", "NoResults", "Queried"}

ListingCalls(call) ==
    Cardinality({i \in DOMAIN call.calls : call.calls[i] = "listRagCorpora"})

\* Some candidate string of some corpus contains the trimmed target,
\* compared case-insensitively.
MatchesSome(target, corpora) ==
    \E i \in DOMAIN corpora :
        \/ indexOf(toLowerCase(corpora[i].displayName), toLowerCase(trim(target))) # -1
        \/ indexOf(toLowerCase(corpora[i].name), toLowerCase(trim(target))) # -1

\* The corpus of the registry with the given resource name.
CorpusNamed(corpora, name) ==
    corpora[CHOOSE i \in DOMAIN corpora : corpora[i].name = name]

(***************************************************************************)
(* C1.  Every handle a resolution returns (findBestMatchingCorpus in       *)
(* ragQuery, resolveCorpusResourceName in the other tools) is the resource *)
(* name of a corpus in the listing that resolution fetched.                *)
(***************************************************************************)
C1_HandleFromListing ==
    (last.op \in ResolvingOps /\ last.handle # NoHandle) =>
        /\ last.listed
        /\ \E i \in DOMAIN last.listing : last.listing[i].name = last.handle

(***************************************************************************)
(* C2.  The target resolution of ragQuery lists the registry afresh on     *)
(* every call with a non-blank target and decides by that listing alone:   *)
(* whatever the corpus_exists flags and current_corpus say, it answers     *)
(* NotFound exactly when the listing failed or no corpus of the registry   *)
(* matches the target, and a corpus it returns is in the registry.         *)
(***************************************************************************)
C2_ResolutionIsLive ==
    (last.op = "ragQuery" /\ last.outcome \in AfterResolution
        /\ trim(last.target) # <<>>) =>
        /\ ListingCalls(last) = 1
        /\ last.calls[1] = "listRagCorpora"
        /\ last.listed => last.listing = registry
        /\ last.outcome = "NotFound" <=>
               (~last.listed \/ ~MatchesSome(last.target, registry))
        /\ last.outcome # "NotFound" => last.handle \in Names(registry)

\* A resolution answers NotFound for a target whose corpus is gone, while
\* the cache still holds a positive flag for it and it is the current corpus.
C2_Witness ==
    /\ last.op = "ragQuery"
    /\ last.outcome = "NotFound"
    /\ last.listed
    /\ trim(last.target) # <<>>
    /\ existsFlag(state, last.target)
    /\ state.current_corpus = Defined(last.target)

(***************************************************************************)
(* C3.  A failed lookup leaves the session state as it was: when           *)
(* checkCorpusExists returns false, and when ragQuery finds no match or    *)
(* has no target, no key changes; a corpus_exists flag becomes true only   *)
(* by a match in a listing or a completed create.                          *)
(***************************************************************************)
C3_FailedLookupKeepsState ==
    [][ /\ last'.check = "false" => last'.checkState = state
        /\ (last'.op = "ragQuery" /\ last'.outcome \in {"NotFound", "NoTarget"})
               => state' = state
        /\ \A x \in DOMAIN state'.corpus_exists :
               (~existsFlag(state, x) /\ existsFlag(state', x)) =>
                   \/ /\ last'.check = "true"
                      /\ ~last'.cached
                      /\ last'.corpus_name = x
                      /\ \E i \in DOMAIN registry :
                             \/ registry[i].name = getCorpusResourceName(x)
                             \/ registry[i].displayName = x
                   \/ /\ last'.op = "createCorpus"
                      /\ last'.outcome = "Created"
                      /\ last'.corpus_name = x
      ]_vars

\* A pre-check listed the registry, found nothing and returned false in a
\* session that already has a current corpus and a recorded flag.
C3_Witness ==
    /\ last.check = "false"
    /\ last.calls = <<"listRagCorpora">>
    /\ last.op = "deleteCorpus"
    /\ state.current_corpus.defined
    /\ \E x \in DOMAIN state.corpus_exists : state.corpus_exists[x]

(***************************************************************************)
(* C4.  After a ragQuery whose resolution returned a corpus, the flag      *)
(* corpus_exists_<identifier> of the resolved identifier is true.          *)
(***************************************************************************)
C4_ResolutionRecordsExistence ==
    (last.op = "ragQuery" /\ last.handle # NoHandle) =>
        existsFlag(state, last.target)

(***************************************************************************)
(* C5.  Once an identifier x has been resolved successfully, and until     *)
(* invalidate(x), checkCorpusExists(x) returns true without listing the    *)
(* registry.  Inductively: a successful resolution of x makes the cache    *)
(* answer for x, and a step that does not invalidate x keeps it answering. *)
(***************************************************************************)
\* checkCorpusExists(x) answers true from the cache, whatever the registry.
CacheAnswers(st, x, corpora) ==
    \A listing \in {ListingFailed, ListingOf(corpora)} :
        /\ checkCorpusExists(x, st, listing).ret
        /\ checkCorpusExists(x, st, listing).calls = <<>>

\* The invocation resolved identifier x successfully.
ResolvedBy(call, x) ==
    /\ call.ctx
    /\ \/ call.op = "ragQuery" /\ call.handle # NoHandle /\ call.target = x
       \/ call.check = "true" /\ call.corpus_name = x
       \/ call.op = "createCorpus" /\ call.outcome = "Created" /\ call.corpus_name = x

\* The invocation called invalidateCorpusExistsState(x).
InvalidatedBy(call, x) ==
    call.op = "deleteCorpus" /\ call.outcome = "Deleted" /\ call.ctx /\ call.corpus_name = x

C5_CacheHitAfterResolution ==
    [][ \A x \in Identifiers :
          /\ (ResolvedBy(last', x) /\ ~InvalidatedBy(last', x))
                 => CacheAnswers(state', x, registry')
          /\ (CacheAnswers(state, x, registry) /\ ~InvalidatedBy(last', x))
                 => CacheAnswers(state', x, registry')
      ]_vars

(***************************************************************************)
(* C6.  A ragQuery with no explicit corpus identifier (empty after         *)
(* trimming), called with a session in which current_corpus is not set,    *)
(* returns NoTarget, makes no registry call and leaves the state unchanged.*)
(***************************************************************************)
C6_NoTarget ==
    [][ (/\ last'.op = "ragQuery"
         /\ last'.ctx
         /\ trim(last'.corpus_name) = <<>>
         /\ ~state.current_corpus.defined)
        => (/\ last'.outcome = "NoTarget"
            /\ last'.calls = <<>>
            /\ state' = state)
      ]_vars

(***************************************************************************)
(* C6, amended.  The same, for a ragQuery whose query is not empty after   *)
(* trimming: the query is validated before the target is resolved.         *)
(***************************************************************************)
C6_NoTargetGivenQuery ==
    [][ (/\ last'.op = "ragQuery"
         /\ last'.ctx
         /\ trim(last'.query) # <<>>
         /\ trim(last'.corpus_name) = <<>>
         /\ ~state.current_corpus.defined)
        => (/\ last'.outcome = "NoTarget"
            /\ last'.status = "error"
            /\ last'.calls = <<>>
            /\ state' = state)
      ]_vars

\* A query with a whitespace-only corpus name, in a session without current
\* corpus and with a corpus in the registry, was answered NoTarget.
C6_Witness ==
    /\ last.op = "ragQuery"
    /\ last.outcome = "NoTarget"
    /\ last.corpus_name = sBlank
    /\ trim(last.query) # <<>>
    /\ ~state.current_corpus.defined
    /\ registry # <<>>

(***************************************************************************)
(* C7.  An empty or whitespace-only identifier yields NotFound or NoTarget *)
(* and causes no registry listing call, in findBestMatchingCorpus, in the  *)
(* target resolution of ragQuery and in the pre-check checkCorpusExists.   *)
(***************************************************************************)
C7_BlankIdentifierNeverLists ==
    /\ \A x \in Identifiers :
           trim(x) = <<>> =>
               findBestMatchingCorpus(x, ListingOf(registry))
                   = [match |-> NoMatch, calls |-> <<>>]
    /\ (/\ last.op = "ragQuery"
        /\ last.outcome \in AfterResolution \cup {"NoTarget"}
        /\ trim(last.target) = <<>>)
       => (last.outcome \in {"NotFound", "NoTarget"} /\ ListingCalls(last) = 0)
    /\ (last.check # "none" /\ trim(last.corpus_name) = <<>>)
       => (last.check = "false" /\ ListingCalls(last) = 0)

(***************************************************************************)
(* C8.  current_corpus is overwritten on every successful resolution and   *)
(* untouched by failed lookups: after a call that resolves a corpus        *)
(* (ragQuery with a match, checkCorpusExists returning true, createCorpus  *)
(* or addData succeeding) it designates the corpus of that call; after a   *)
(* call whose lookup failed it has its previous value.                     *)
(***************************************************************************)
\* The invocation resolved a corpus.
Succeeded(call) ==
    /\ call.ctx
    /\ \/ call.op = "ragQuery" /\ call.handle # NoHandle
       \/ call.check = "true"
       \/ call.op = "createCorpus" /\ call.outcome = "Created"
       \/ call.op = "addData" /\ call.outcome = "Added"

\* The invocation's lookup failed.
FailedLookup(call) ==
    /\ ~Succeeded(call)
    /\ call.check = "false" \/ call.outcome \in {"NotFound", "NoTarget", "DoesNotExist"}

\* The values of current_corpus that designate the corpus of the invocation:
\* the identifier given, or a name of the corpus it resolved.
Designations(call, corpora) ==
    {Defined(call.corpus_name), Defined(call.target)}
    \cup IF call.handle \in Names(corpora)
         THEN {Defined(call.handle),
               Defined(CorpusNamed(corpora, call.handle).displayName)}
         ELSE {}

C8_CurrentFollowsResolution ==
    [][ /\ Succeeded(last') => state'.current_corpus \in Designations(last', registry)
        /\ FailedLookup(last') => state'.current_corpus = state.current_corpus
      ]_vars

(***************************************************************************)
(* C8, amended.  current_corpus is overwritten only by a ragQuery that      *)
(* returns results (with the display name of the matched corpus, or its     *)
(* resource name when it has none) and by a createCorpus that succeeds      *)
(* (with the name given); a checkCorpusExists that finds the corpus in a    *)
(* listing and an addData that succeeds set it to the name given only when  *)
(* it has no value; every other call, failed lookups included, leaves it    *)
(* as it was.                                                               *)
(***************************************************************************)
C8_CurrentCorpusUpdates ==
    [][ state'.current_corpus =
          IF last'.op = "ragQuery" /\ last'.outcome = "Queried"
          THEN LET corpus == CorpusNamed(registry, last'.handle)
               IN  Defined(IF corpus.displayName # <<>>
                           THEN corpus.displayName ELSE corpus.name)
          ELSE IF last'.op = "createCorpus" /\ last'.outcome = "Created" /\ last'.ctx
          THEN Defined(last'.corpus_name)
          ELSE IF /\ ~state.current_corpus.defined
                  /\ last'.ctx
                  /\ \/ last'.check = "true" /\ ~last'.cached
                     \/ last'.op = "addData" /\ last'.outcome = "Added"
          THEN Defined(last'.corpus_name)
          ELSE state.current_corpus
      ]_vars

\* A query matched a corpus other than the current one and returned no
\* result: current_corpus still names the other corpus.
C8_Witness ==
    /\ last.op = "ragQuery"
    /\ last.outcome = "NoResults"
    /\ last.handle \in Names(registry)
    /\ state.current_corpus.defined
    /\ state.current_corpus \notin Designations(last, registry)

(***************************************************************************)
(* C9.  The match branch of checkCorpusExists(x) sets corpus_exists_x to   *)
(* true; it sets current_corpus to x exactly when current_corpus had no    *)
(* value before the call and leaves a set current_corpus unchanged.        *)
(***************************************************************************)
C9_RecordExistence ==
    [][ (last'.check = "true" /\ ~last'.cached) =>
            /\ existsFlag(last'.checkState, last'.corpus_name)
            /\ last'.checkState.current_corpus =
                   IF state.current_corpus.defined
                   THEN state.current_corpus
                   ELSE Defined(last'.corpus_name)
            /\ \A y \in DOMAIN state.corpus_exists :
                   y # last'.corpus_name =>
                       /\ y \in DOMAIN last'.checkState.corpus_exists
                       /\ last'.checkState.corpus_exists[y] = state.corpus_exists[y]
      ]_vars

\* A pre-check found its corpus in a listing while another corpus was
\* current: the flag is recorded and current_corpus is the other one.
C9_Witness ==
    /\ last.check = "true"
    /\ ~last.cached
    /\ existsFlag(last.checkState, last.corpus_name)
    /\ last.checkState.current_corpus.defined
    /\ last.checkState.current_corpus # Defined(last.corpus_name)

(***************************************************************************)
(* C10.  invalidateCorpusExistsState(x) turns a true corpus_exists_x into  *)
(* false and does nothing when the flag is absent or false; it removes no  *)
(* key and changes neither current_corpus nor the flag of another          *)
(* identifier; after a deleteCorpus(x) that succeeds with a session state, *)
(* corpus_exists_x is false.                                               *)
(***************************************************************************)
C10_Invalidate ==
    /\ \A x \in Identifiers :
         LET after == invalidateCorpusExistsState(x, state)
         IN  /\ DOMAIN after.corpus_exists = DOMAIN state.corpus_exists
             /\ after.current_corpus = state.current_corpus
             /\ \A y \in DOMAIN state.corpus_exists :
                    after.corpus_exists[y] =
                        IF y = x THEN FALSE ELSE state.corpus_exists[y]
             /\ ~existsFlag(state, x) => after = state
    /\ (last.op = "deleteCorpus" /\ last.outcome = "Deleted" /\ last.ctx) =>
           /\ last.corpus_name \in DOMAIN state.corpus_exists
           /\ state.corpus_exists[last.corpus_name] = FALSE

\* A deleteCorpus succeeded in a session that holds the flag of another
\* identifier and a current corpus.
C10_Witness ==
    /\ last.op = "deleteCorpus"
    /\ last.outcome = "Deleted"
    /\ last.ctx
    /\ state.current_corpus.defined
    /\ \E y \in DOMAIN state.corpus_exists :
           y # last.corpus_name /\ state.corpus_exists[y]

(***************************************************************************)
(* C11.  The existence cache is keyed by the literal identifier: the       *)
(* lookup for x turns true only in a call that recorded existence for the  *)
(* very string x, turns false only in a call that invalidated x, and       *)
(* recording or invalidating another string y leaves the answer for x.     *)
(***************************************************************************)
\* The identifier names the corpus exactly, as checkCorpusExists compares.
NamesCorpus(x, corpus) ==
    corpus.name = getCorpusResourceName(x) \/ corpus.displayName = x

C11_CacheKeyedByLiteral ==
    /\ [](\A x \in Identifiers : \A y \in Identifiers \ {x} :
             /\ existsFlag(recordMatch(y, state), x) = existsFlag(state, x)
             /\ existsFlag(invalidateCorpusExistsState(y, state), x)
                    = existsFlag(state, x))
    /\ [][ \A x \in {y \in Identifiers :
                        existsFlag(state, y) # existsFlag(state', y)} :
             /\ (~existsFlag(state, x) /\ existsFlag(state', x)) =>
                    /\ last'.corpus_name = x
                    /\ \/ last'.check = "true" /\ ~last'.cached
                       \/ last'.op = "createCorpus" /\ last'.outcome = "Created"
             /\ (existsFlag(state, x) /\ ~existsFlag(state', x)) =>
                    /\ last'.corpus_name = x
                    /\ last'.op = "deleteCorpus" /\ last'.outcome = "Deleted"
         ]_vars

\* Two different strings name the same corpus of the registry; existence is
\* cached for one of them and not for the other.
C11_Witness ==
    \E x \in Identifiers, y \in Identifiers, i \in DOMAIN registry :
        /\ x # y
        /\ NamesCorpus(x, registry[i])
        /\ NamesCorpus(y, registry[i])
        /\ existsFlag(state, x)
        /\ ~existsFlag(state, y)

(***************************************************************************)
(* C12.  A listing call that fails is reported as an outcome distinct from *)
(* NotFound and from "does not exist" and changes no session state: the    *)
(* results of checkCorpusExists, findBestMatchingCorpus and                *)
(* resolveCorpusResourceName, and of the tools built on them, differ       *)
(* between a failed listing and a listing without matching corpus.         *)
(***************************************************************************)
C12_UnavailableIsDistinct ==
    /\ (last.unavailable /\ last.check = "false") => last.checkState = state
    /\ last.unavailable => last.outcome \notin {"NotFound", "DoesNotExist"}
    /\ last.unavailable => \A x \in Identifiers :
         LET empty == ListingOf(<<>>)
         IN  /\ checkCorpusExists(x, state, ListingFailed).state = state
             /\ ~existsFlag(state, x) =>
                    checkCorpusExists(x, state, ListingFailed).ret
                        # checkCorpusExists(x, state, empty).ret
             /\ trim(x) # <<>> =>
                    findBestMatchingCorpus(x, ListingFailed).match
                        # findBestMatchingCorpus(x, empty).match
             /\ ~matchesResourceName(x) =>
                    resolveCorpusResourceName(x, ListingFailed).match
                        # resolveCorpusResourceName(x, empty).match

(***************************************************************************)
(* C13.  Every tool invocation ends by returning a structured result, a    *)
(* status and a message, whatever the registry does (each call succeeding  *)
(* or failing) and with or without a session context: every invocation is  *)
(* possible in every session, its result carries one of the four statuses  *)
(* and an outcome of its tool, and a failed registry call is reported.     *)
(***************************************************************************)
Statuses == {"success", "error", "info", "warning"}

OutcomesOf(op) ==
    CASE op = "ragQuery" ->
             {"EmptyQuery", "NoConfig", "NoContext", "NoTarget", "NotFound",
              "RetrieveError", "NoResults", "Queried"}
      [] op = "createCorpus" -> {"NoConfig", "AlreadyExists", "Created", "CreateError"}
      [] op = "deleteCorpus" ->
             {"NoConfig", "DoesNotExist", "NotFound", "Deleted", "DeleteError"}
      [] op = "addData" ->
             {"NoConfig", "NoValidPaths", "DoesNotExist", "NotFound", "Added", "AddError"}
      [] op = "getCorpusInfo" ->
             {"NoConfig", "DoesNotExist", "NotFound", "Info", "InfoError"}
      [] op = "deleteDocument" ->
             {"NoConfig", "DoesNotExist", "NotFound", "DocumentDeleted", "DeleteError"}
      [] op = "listCorpora" -> {"NoConfig", "Listed", "ListError"}

\* In a session that awaits an invocation, every tool can be invoked.
EveryToolReturns ==
    /\ ENABLED InvokeRagQuery
    /\ ENABLED InvokeCreateCorpus
    /\ ENABLED InvokeDeleteCorpus
    /\ ENABLED InvokeAddData
    /\ ENABLED InvokeGetCorpusInfo
    /\ ENABLED InvokeDeleteDocument
    /\ ENABLED InvokeListCorpora

C13_StructuredResult ==
    /\ last = NoCall => EveryToolReturns
    /\ last # NoCall =>
           /\ last.status \in Statuses
           /\ last.outcome \in OutcomesOf(last.op)
           /\ last.outcome \in {"RetrieveError", "CreateError", "DeleteError",
                                "AddError", "InfoError", "ListError"}
                  => last.status = "error"
           /\ (last.unavailable /\ last.op # "createCorpus") => last.status = "error"

\* A deleteCorpus without session context whose delete request failed
\* returned an error result.
C13_Witness ==
    /\ last.op = "deleteCorpus"
    /\ ~last.ctx
    /\ last.status = "error"
    /\ last.outcome = "DeleteError"
    /\ last.calls = <<"listRagCorpora", "deleteRagCorpus">>

(***************************************************************************)
(* C14.  createCorpus and deleteCorpus report success only when the        *)
(* long-running operation has completed: after a success the created       *)
(* corpus is in the registry, the deleted one is not, and only then is the *)
(* session state updated (flag true and current_corpus on create, flag     *)
(* false on delete); when the request or the operation fails the status is *)
(* 'error', the registry is as before and the state is what the pre-check  *)
(* left.                                                                   *)
(***************************************************************************)
C14_SuccessAfterCompletion ==
    [][ /\ last'.op = "createCorpus" =>
             /\ last'.status = "success" <=> last'.outcome = "Created"
             /\ last'.outcome = "Created" =>
                    /\ last'.handle \notin Names(registry)
                    /\ last'.handle \in Names(registry')
                    /\ CorpusNamed(registry', last'.handle).displayName
                           = replaceSpecial(last'.corpus_name)
                    /\ last'.ctx =>
                           /\ existsFlag(state', last'.corpus_name)
                           /\ state'.current_corpus = Defined(last'.corpus_name)
                    /\ ~last'.ctx => state' = state
             /\ last'.outcome = "CreateError" =>
                    /\ last'.status = "error"
                    /\ registry' = registry
                    /\ state' = state
        /\ last'.op = "deleteCorpus" =>
             /\ last'.status = "success" <=> last'.outcome = "Deleted"
             /\ last'.outcome = "Deleted" =>
                    /\ last'.handle \in Names(registry)
                    /\ last'.handle \notin Names(registry')
                    /\ last'.ctx =>
                           /\ last'.corpus_name \in DOMAIN state'.corpus_exists
                           /\ ~state'.corpus_exists[last'.corpus_name]
                    /\ ~last'.ctx => state' = state
             /\ last'.outcome = "DeleteError" =>
                    /\ last'.status = "error"
                    /\ registry' = registry
                    /\ state' = last'.checkState
                    /\ last'.ctx => existsFlag(state', last'.corpus_name)
      ]_vars

\* A deleteCorpus with a session state resolved its corpus and failed at the
\* delete request: the corpus is still there and its flag still true.
C14_Witness ==
    /\ last.op = "deleteCorpus"
    /\ last.outcome = "DeleteError"
    /\ last.ctx
    /\ last.handle \in Names(registry)
    /\ existsFlag(state, last.corpus_name)

(***************************************************************************)
(* C15.  The existence pre-check guards every mutating operation:          *)
(* deleteCorpus, deleteDocument and addData send no delete or import       *)
(* request unless checkCorpusExists returned true for the identifier in    *)
(* that invocation, and createCorpus sends no create request when          *)
(* checkCorpusExists returned true.                                        *)
(***************************************************************************)
Sent(call, request) == \E i \in DOMAIN call.calls : call.calls[i] = request

C15_PreCheckGuardsMutations ==
    /\ (last.op = "deleteCorpus" /\ Sent(last, "deleteRagCorpus")) => last.check = "true"
    /\ (last.op = "deleteDocument" /\ Sent(last, "deleteRagFile")) => last.check = "true"
    /\ (last.op = "addData" /\ Sent(last, "importRagFiles")) => last.check = "true"
    /\ (last.op = "createCorpus" /\ Sent(last, "createRagCorpus")) => last.check # "true"

(***************************************************************************)
(* C16.  After the corpus named by current_corpus has been deleted         *)
(* (deleteCorpus succeeded, the invalidation left current_corpus in        *)
(* place), a ragQuery that omits the corpus identifier targets the deleted *)
(* corpus by name and fails with NotFound at the listing step; it does not *)
(* go on to query another corpus.                                          *)
(***************************************************************************)
\* current_corpus names an identifier whose flag an invalidation reset.
CurrentWasDeleted(st) ==
    /\ st.current_corpus.defined
    /\ st.current_corpus.value \in DOMAIN st.corpus_exists
    /\ ~st.corpus_exists[st.current_corpus.value]

\* A ragQuery without corpus identifier got past its validation.
OmitsIdentifier(call) ==
    /\ call.op = "ragQuery"
    /\ call.outcome \in AfterResolution \cup {"NoTarget"}
    /\ trim(call.corpus_name) = <<>>

C16_DeletedCurrentNotFound ==
    [][ (OmitsIdentifier(last') /\ CurrentWasDeleted(state)) =>
            /\ last'.target = state.current_corpus.value
            /\ last'.calls = <<"listRagCorpora">>
            /\ last'.outcome = "NotFound"
      ]_vars

(***************************************************************************)
(* C16, amended.  After such a deletion the ragQuery without identifier    *)
(* targets the deleted corpus by the name in current_corpus and resolves   *)
(* it at the listing step, not from the cache: it fails with NotFound      *)
(* exactly when the listing fails or no corpus now in the registry has a   *)
(* candidate containing that name; when another corpus (a longer name, or  *)
(* a corpus created again under the name) matches, that corpus is queried. *)
(***************************************************************************)
C16_DeletedCurrentResolvedLive ==
    [][ (OmitsIdentifier(last') /\ CurrentWasDeleted(state)) =>
            /\ last'.target = state.current_corpus.value
            /\ last'.calls[1] = "listRagCorpora"
            /\ ListingCalls(last') = 1
            /\ last'.outcome = "NotFound" <=>
                   (~last'.listed \/ ~MatchesSome(last'.target, registry))
            /\ last'.outcome # "NotFound" =>
                   /\ last'.handle \in Names(registry)
                   /\ MatchesSome(last'.target,
                                  <<CorpusNamed(registry, last'.handle)>>)
      ]_vars

\* The identifier-less query after the deletion of the current corpus
\* listed the registry and answered NotFound.
C16_Witness ==
    /\ OmitsIdentifier(last)
    /\ CurrentWasDeleted(state)
    /\ last.target = state.current_corpus.value
    /\ last.listed
    /\ last.outcome = "NotFound"

(***************************************************************************)
(* getCorpusResourceName on its own: the function is applied to an input   *)
(* string, and again to its result.  corpus_name records the input, handle *)
(* the result, target the result of the second application.                *)
(***************************************************************************)
MaxLen == 3

\* The characters of the inputs: a letter, the separator, a blank, and two
\* characters outside [a-zA-Z0-9_-].
InputChars == {"a", "/", " ", ".", "_"}

RECURSIVE StringsUpTo(_)
StringsUpTo(n) ==
    IF n = 0 THEN {<<>>}
    ELSE LET shorter == StringsUpTo(n - 1)
         IN  shorter \cup {Append(s, c) : s \in shorter, c \in InputChars}

\* Short strings, and the same strings behind the prefix of a full resource
\* name of the configured project and of another project.
CanonicalInputs ==
    LET short == StringsUpTo(MaxLen)
        here == sProjects \o <<"/">> \o PROJECT_ID \o <<"/">> \o sLocations
                    \o <<"/">> \o LOCATION \o <<"/">> \o sRagCorpora \o <<"/">>
        there == sProjects \o <<"/", "x", "/">> \o sLocations
                    \o <<"/", "y", "/">> \o sRagCorpora \o <<"/">>
    IN  short \cup {here \o s : s \in short} \cup {there \o s : s \in short}

Canonicalize ==
    /\ last = NoCall
    /\ \E s \in CanonicalInputs :
         last' = [NoCall EXCEPT
                    !.op = "getCorpusResourceName",
                    !.corpus_name = s,
                    !.handle = getCorpusResourceName(s),
                    !.target = getCorpusResourceName(getCorpusResourceName(s))]
    /\ UNCHANGED <<registry, state, assigned, inflight>>

InitCanonical ==
    /\ registry = <<>>
    /\ state = InitState
    /\ last = NoCall
    /\ assigned = {}
    /\ inflight = <<>>

NextCanonical == Canonicalize

SpecCanonical == InitCanonical /\ [][NextCanonical]_vars

(***************************************************************************)
(* C17.  Canonicalization is idempotent for every input string:            *)
(* getCorpusResourceName(getCorpusResourceName(s)) is                      *)
(* getCorpusResourceName(s), also for strings with disallowed characters,  *)
(* strings ending in '/' and the empty string; and an input of the form    *)
(* projects/<p>/locations/<l>/ragCorpora/<id> is returned unchanged.       *)
(***************************************************************************)
C17_CanonicalizationIdempotent ==
    last.op = "getCorpusResourceName" =>
        /\ last.target = last.handle
        /\ matchesResourceName(last.corpus_name) => last.handle = last.corpus_name

(***************************************************************************)
(* C18.  For every input string, with project and location configured,     *)
(* getCorpusResourceName returns a syntactically valid handle: a string of *)
(* the form projects/<p>/locations/<l>/ragCorpora/<id> with a non-empty    *)
(* <id> and no '/' inside a segment.                                       *)
(***************************************************************************)
C18_HandleWellFormed ==
    last.op = "getCorpusResourceName" =>
        LET parts == split(last.handle)
        IN  /\ Len(parts) = 6
            /\ parts[1] = sProjects
            /\ parts[2] # <<>>
            /\ parts[3] = sLocations
            /\ parts[4] # <<>>
            /\ parts[5] = sRagCorpora
            /\ parts[6] # <<>>

(***************************************************************************)
(* findBestMatchingCorpus on its own: the registry holds some listing of   *)
(* corpora, and the function is applied to a query.  corpus_name records   *)
(* the query, listing the corpora listed, handle the corpus returned.      *)
(***************************************************************************)
MaxListing == 2

sNotes == <<"N", "o", "t", "e", "s">>
sNotesA == <<"N", "o", "t", "e", "s", " ", "A">>
sResearchNotes == <<"R", "e", "s", "e", "a", "r", "c", "h", " ", "N", "o", "t", "e", "s">>
sOther == <<"O", "t", "h", "e", "r">>
sResearchNotesN2 == sResearchNotes \o <<" ", "n", "2">>

MatchDisplayNames == {sNotes, sNotesA, sResearchNotes, sOther, sResearchNotesN2}

MatchQueries ==
    { sNotes,
      <<"n", "o", "t", "e", "s">>,
      <<"N", "O", "T", "E", "S">>,
      <<" ", "N", "o", "t", "e", "s", " ">>,
      <<"e">>,
      <<"n", "2">>,
      <<"x">>,
      sBlank,
      sEmpty }

RECURSIVE ListingsUpTo(_)
ListingsUpTo(n) ==
    IF n = 0 THEN {<<>>}
    ELSE LET shorter == ListingsUpTo(n - 1)
             corpora == {[name |-> resourceNameOf(id), displayName |-> d] :
                            id \in CorpusIds, d \in MatchDisplayNames}
         IN  shorter \cup
             {Append(x[1], x[2]) :
                 x \in {y \in shorter \X corpora : y[2].name \notin Names(y[1])}}

\* The listings of at most MaxListing corpora, each under its own id.
MatchListings == ListingsUpTo(MaxListing)

FindBestMatch ==
    /\ last = NoCall
    /\ \E q \in MatchQueries, ok \in BOOLEAN :
         LET listing == listRagCorpora(ok)
         IN  last' = Resolved(Call("findBestMatchingCorpus", q, FALSE),
                              findBestMatchingCorpus(q, listing), listing)
    /\ UNCHANGED <<registry, state, assigned, inflight>>

InitMatch ==
    /\ registry \in MatchListings
    /\ state = InitState
    /\ last = NoCall
    /\ assigned = {id \in CorpusIds : resourceNameOf(id) \in Names(registry)}
    /\ inflight = <<>>

NextMatch == FindBestMatch

SpecMatch == InitMatch /\ [][NextMatch]_vars

\* Some candidate string of the corpus (display name, trailing segment of
\* the resource name, full resource name) contains the trimmed query,
\* compared case-insensitively.
HasCandidateContaining(corpus, q) ==
    \/ indexOf(toLowerCase(corpus.displayName), toLowerCase(trim(q))) # -1
    \/ indexOf(toLowerCase(splitPop(corpus.name)), toLowerCase(trim(q))) # -1
    \/ indexOf(toLowerCase(corpus.name), toLowerCase(trim(q))) # -1

\* Corpus i is the only corpus of the listing with a candidate containing q.
OnlyCandidate(corpora, i, q) ==
    /\ HasCandidateContaining(corpora[i], q)
    /\ \A j \in DOMAIN corpora \ {i} : ~HasCandidateContaining(corpora[j], q)

\* findBestMatchingCorpus was applied and its listing call succeeded or was
\* never needed.
Matched == last.op = "findBestMatchingCorpus" /\ ~last.unavailable

(***************************************************************************)
(* C19, as stated.  When exactly one corpus of the listing has a candidate *)
(* string containing the trimmed query case-insensitively,                 *)
(* findBestMatchingCorpus returns that corpus, for every query.            *)
(***************************************************************************)
C19_OnlyCandidateReturned ==
    Matched =>
        \A i \in DOMAIN registry :
            OnlyCandidate(registry, i, last.corpus_name) =>
                last.handle = registry[i].name

(***************************************************************************)
(* C19, for a query that is not empty after trimming.  When exactly one    *)
(* corpus of the listing has a candidate string containing the trimmed     *)
(* query case-insensitively, findBestMatchingCorpus returns that corpus,   *)
(* whatever the casing and padding of the query.                           *)
(***************************************************************************)
C19_OnlyCandidateReturnedForQuery ==
    (Matched /\ trim(last.corpus_name) # <<>>) =>
        \A i \in DOMAIN registry :
            OnlyCandidate(registry, i, last.corpus_name) =>
                last.handle = registry[i].name

\* "Research Notes" listed next to a corpus the query does not match, the
\* padded query " Notes " resolved to it.
C19_Witness ==
    /\ Matched
    /\ last.corpus_name = <<" ", "N", "o", "t", "e", "s", " ">>
    /\ Len(registry) = 2
    /\ \E i \in DOMAIN registry :
         /\ registry[i].displayName = sResearchNotes
         /\ OnlyCandidate(registry, i, last.corpus_name)
         /\ last.handle = registry[i].name

(***************************************************************************)
(* C20.  When the listing holds a corpus whose display name equals the     *)
(* query exactly and another whose display name merely contains it, the    *)
(* exact match scores at least as high as the containing one and           *)
(* findBestMatchingCorpus returns a corpus whose display name equals the   *)
(* query, in whichever order the two are listed.                           *)
(***************************************************************************)
C20_ExactMatchWins ==
    (Matched /\ last.listed) =>
        \A i \in DOMAIN registry, j \in DOMAIN registry :
            LET q == last.corpus_name
                exact == registry[i].displayName
                containing == registry[j].displayName
            IN  ( /\ exact = q
                  /\ containing # q
                  /\ indexOf(toLowerCase(containing), toLowerCase(trim(q))) # -1 )
                => /\ candidateScore(candidatesOf(registry[i])[1], toLowerCase(trim(q)))
                        >= candidateScore(candidatesOf(registry[j])[1], toLowerCase(trim(q)))
                   /\ last.handle \in Names(registry)
                   /\ CorpusNamed(registry, last.handle).displayName = q

\* The three candidate strings of a corpus and their weights, as the
\* scoring rule states them.
CandidateStrings(corpus) ==
    <<corpus.displayName, splitPop(corpus.name), corpus.name>>

Weights == <<30, 20, 10>>

\* The pairs <<corpus index, candidate kind>> whose string contains nq.
Hits(corpora, nq) ==
    {h \in (DOMAIN corpora) \X (1..3) :
        indexOf(toLowerCase(CandidateStrings(corpora[h[1]])[h[2]]), nq) # -1}

\* length(q)*100 + weight - indexOfFirstOccurrence
ScoreOf(corpora, h, nq) ==
    Len(nq) * 100 + Weights[h[2]]
        - indexOf(toLowerCase(CandidateStrings(corpora[h[1]])[h[2]]), nq)

\* The hits that attain the maximum score.
BestHits(corpora, nq) ==
    {h \in Hits(corpora, nq) :
        \A g \in Hits(corpora, nq) : ScoreOf(corpora, h, nq) >= ScoreOf(corpora, g, nq)}

\* The normalized query of the call on record.
NormalizedQuery == toLowerCase(trim(last.corpus_name))

(***************************************************************************)
(* C21.  For a non-empty normalized query and any listing,                 *)
(* findBestMatchingCorpus returns a corpus attaining the maximum, over all *)
(* corpora and their candidate strings containing the query, of            *)
(* length(q)*100 + weight - index (weights 30, 20, 10); it returns no      *)
(* corpus exactly when no candidate string of any corpus contains q.       *)
(***************************************************************************)
C21_MaximumScoreReturned ==
    (Matched /\ last.listed) =>
        /\ last.handle = NoHandle <=> Hits(registry, NormalizedQuery) = {}
        /\ Hits(registry, NormalizedQuery) # {} =>
               \E h \in BestHits(registry, NormalizedQuery) :
                   registry[h[1]].name = last.handle

\* Two corpora contain the query with different best scores, and the second
\* of the listing, which scores higher, was returned.
C21_Witness ==
    /\ Matched /\ last.listed
    /\ Len(registry) = 2
    /\ \E h \in Hits(registry, NormalizedQuery) : h[1] = 1
    /\ \A h \in BestHits(registry, NormalizedQuery) : h[1] = 2
    /\ last.handle = registry[2].name

(***************************************************************************)
(* C22.  When several corpora attain the same highest score,               *)
(* findBestMatchingCorpus returns the one that appears first in the        *)
(* listing: a later corpus replaces the best only on a strictly greater    *)
(* score.                                                                  *)
(***************************************************************************)
C22_FirstOfTiesWins ==
    (Matched /\ last.listed /\ Hits(registry, NormalizedQuery) # {}) =>
        \E h \in BestHits(registry, NormalizedQuery) :
            /\ \A g \in BestHits(registry, NormalizedQuery) : h[1] <= g[1]
            /\ last.handle = registry[h[1]].name

\* Both corpora of the listing attain the highest score, the first was
\* returned.
C22_Witness ==
    /\ Matched /\ last.listed
    /\ Len(registry) = 2
    /\ \E h \in BestHits(registry, NormalizedQuery) : h[1] = 1
    /\ \E h \in BestHits(registry, NormalizedQuery) : h[1] = 2
    /\ last.handle = registry[1].name

(***************************************************************************)
(* C23.  For one query, a corpus matched through its display name always   *)
(* beats a corpus matched only through its resource id, which always beats *)
(* a corpus matched only through its full resource name, whatever the      *)
(* positions of the occurrences: the lesser corpus is never the one        *)
(* returned.                                                               *)
(***************************************************************************)
C23_KindOfMatchDecides ==
    (Matched /\ last.listed) =>
        \A i \in DOMAIN registry, j \in DOMAIN registry :
            LET hits == Hits(registry, NormalizedQuery)
                best(n) == CHOOSE k \in 1..3 :
                               /\ <<n, k>> \in hits
                               /\ \A m \in 1..(k - 1) : <<n, m>> \notin hits
                matched(n) == \E k \in 1..3 : <<n, k>> \in hits
            IN  (matched(i) /\ matched(j) /\ best(i) < best(j))
                    => last.handle # registry[j].name

\* The trailing path segment: the text after the last '/', the whole string
\* when it has no '/'.
TrailingSegment(s) ==
    LET slashes == {i \in DOMAIN s : s[i] = "/"}
    IN  IF slashes = {} THEN s
        ELSE SubSeq(s, (CHOOSE i \in slashes : \A j \in slashes : j <= i) + 1, Len(s))

\* projects/<PROJECT_ID>/locations/<LOCATION>/ragCorpora/
HandlePrefix ==
    sProjects \o <<"/">> \o PROJECT_ID \o <<"/">> \o sLocations \o <<"/">>
        \o LOCATION \o <<"/">> \o sRagCorpora \o <<"/">>

(***************************************************************************)
(* C24.  For an input that is not already a full resource name,            *)
(* getCorpusResourceName takes the trailing path segment after the last    *)
(* '/' (the whole string when it has no '/'), replaces each character      *)
(* outside [a-zA-Z0-9_-] by exactly one '_', so that the id is as long as  *)
(* the segment, and returns projects/<PROJECT_ID>/locations/<LOCATION>/    *)
(* ragCorpora/<that id>.                                                   *)
(***************************************************************************)
C24_TrailingSegmentCleaned ==
    (last.op = "getCorpusResourceName" /\ ~matchesResourceName(last.corpus_name)) =>
        LET segment == TrailingSegment(last.corpus_name)
            id == SubSeq(last.handle, Len(HandlePrefix) + 1, Len(last.handle))
        IN  /\ SubSeq(last.handle, 1, Len(HandlePrefix)) = HandlePrefix
            /\ Len(id) = Len(segment)
            /\ \A i \in DOMAIN segment :
                   id[i] = IF segment[i] \in IdChars THEN segment[i] ELSE "_"

(***************************************************************************)
(* C24, with the segment the code takes.  For an input that is not already *)
(* a full resource name, getCorpusResourceName takes the trailing path     *)
(* segment after the last '/', or the whole string when that segment is    *)
(* empty (the input has no '/', ends in '/' or is empty), replaces each    *)
(* character outside [a-zA-Z0-9_-] by exactly one '_', so that the id is   *)
(* as long as what it took, and returns projects/<PROJECT_ID>/locations/   *)
(* <LOCATION>/ragCorpora/<that id>.                                        *)
(***************************************************************************)
C24_SegmentOrWholeCleaned ==
    (last.op = "getCorpusResourceName" /\ ~matchesResourceName(last.corpus_name)) =>
        LET trailing == TrailingSegment(last.corpus_name)
            segment == IF trailing # <<>> THEN trailing ELSE last.corpus_name
            id == SubSeq(last.handle, Len(HandlePrefix) + 1, Len(last.handle))
        IN  /\ SubSeq(last.handle, 1, Len(HandlePrefix)) = HandlePrefix
            /\ Len(id) = Len(segment)
            /\ \A i \in DOMAIN segment :
                   id[i] = IF segment[i] \in IdChars THEN segment[i] ELSE "_"

\* The input "/a " has a '/' and a character outside the class: the id is
\* "a_".
C24_Witness ==
    /\ last.op = "getCorpusResourceName"
    /\ last.corpus_name = <<"/", "a", " ">>
    /\ last.handle = HandlePrefix \o <<"a", "_">>

(***************************************************************************)
(* Tool calls of one session interleaved at their await points.  A call    *)
(* runs from one await to the next without interruption (the handlers are  *)
(* async functions on one event loop); at an await another call may run.   *)
(* inflight[c] is the call in slot c and the await it is suspended at:     *)
(*   "check"     checkCorpusExists awaits client.listRagCorpora            *)
(*   "rest"      getCorpusInfo awaits its resolution and registry reads    *)
(*   "import"    addData awaits its resolution and import operations       *)
(*   "create"    createCorpus awaits createRagCorpus and its operation     *)
(*   "resolve"   ragQuery awaits findBestMatchingCorpus                    *)
(*   "retrieve"  ragQuery awaits retrieveContexts                          *)
(* The awaits that follow one another with no access to the session state *)
(* in between are one step.  The results the calls return are not          *)
(* recorded: a call that returns frees its slot.                           *)
(***************************************************************************)
MaxCalls == 2

Slots == 1..MaxCalls

\* The corpus_name arguments of the interleaved calls: a display name and
\* a resource name, which may name the same corpus.
InterleavedNames == {sAb, resourceNameOf(sN1)}

\* The tools that begin with the existence pre-check.
CheckingTools == {"getCorpusInfo", "addData", "createCorpus"}

\* A slot without a call, and a suspended call: the tool and its
\* corpus_name, the await it is at, for a tool with a set-if-unset test
\* ahead the current_corpus of the session when it was invoked (seen), the
\* current_corpus the test of its pre-check read (read), and for ragQuery
\* the target and the canonical name of the match.
Idle ==
    [op |-> "none", corpus_name |-> <<>>, pc |-> "idle", seen |-> Undefined,
     read |-> Undefined, target |-> <<>>, canonical |-> <<>>]

Pending(op, corpusName, pc, seen) ==
    [Idle EXCEPT !.op = op, !.corpus_name = corpusName, !.pc = pc, !.seen = seen]

\* Variant: current_corpus is read when the call begins, before its awaits.
getCurrentCorpus_beforeAwait(pending, st) == pending.seen

\* toolContext.state.get('current_corpus') in the test that guards the set:
\* it reads the state in the synchronous block that writes it.
getCurrentCorpus(pending, st) == st.current_corpus

\* if (!toolContext.state.get('current_corpus')) set('current_corpus', name)
setCurrentCorpusIfUnset(pending, corpusName, st) ==
    IF ~Truthy(getCurrentCorpus(pending, st))
    THEN setCurrentCorpus(corpusName, st)
    ELSE st

\* Where a tool goes on after its pre-check returned ret: to its next
\* await, or it returns and its slot is free.  Only addData has another
\* set-if-unset test ahead; the other tools need what they read no more.
AfterCheck(pending, ret) ==
    CASE pending.op = "createCorpus" ->
            IF ret THEN Idle
            ELSE Pending("createCorpus", pending.corpus_name, "create", Undefined)
      [] pending.op = "addData" ->
            IF ret THEN [pending EXCEPT !.pc = "import"] ELSE Idle
      [] pending.op = "getCorpusInfo" ->
            IF ret
            THEN Pending("getCorpusInfo", pending.corpus_name, "rest", Undefined)
            ELSE Idle

\* The slots are interchangeable: a new call takes the first free one.
FirstFree(c) ==
    /\ inflight[c] = Idle
    /\ \A d \in 1..(c - 1) : inflight[d] # Idle

\* A tool with a pre-check is invoked: checkCorpusExists answers from the
\* cache at once, or suspends at its listing call.
BeginChecked(c) ==
    /\ FirstFree(c)
    /\ \E op \in CheckingTools, corpusName \in InterleavedNames :
         LET pending == Pending(op, corpusName, "check", state.current_corpus)
         IN  inflight' = [inflight EXCEPT ![c] =
                 IF existsFlag(state, corpusName)
                 THEN AfterCheck(pending, TRUE)
                 ELSE pending]
    /\ UNCHANGED <<registry, state, last, assigned>>

\* checkCorpusExists after its listing call: the loop over the corpora, the
\* flag, and current_corpus when it has no value.
ResumeCheck(c) ==
    /\ inflight[c].pc = "check"
    /\ \E listOk \in BOOLEAN :
         LET pending == inflight[c]
             corpusName == pending.corpus_name
             listing == listRagCorpora(listOk)
             corpusResourceName == getCorpusResourceName(corpusName)
             hit(corpus) == corpus.name = corpusResourceName
                                \/ corpus.displayName = corpusName
             ret == listing.ok
                      /\ findIndex({n \in DOMAIN listing.corpora :
                                      hit(listing.corpora[n])}) # 0
             recorded == setExistsFlag(state, corpusName, TRUE)
         IN  IF ret
             THEN /\ state' = setCurrentCorpusIfUnset(pending, corpusName, recorded)
                  /\ inflight' = [inflight EXCEPT ![c] =
                         AfterCheck([pending EXCEPT
                                        !.read = getCurrentCorpus(pending, recorded)],
                                    TRUE)]
             ELSE /\ UNCHANGED state
                  /\ inflight' = [inflight EXCEPT ![c] = AfterCheck(pending, FALSE)]
    /\ UNCHANGED <<registry, last, assigned>>

\* getCorpusInfo after its pre-check: resolution, getRagCorpus, listRagFiles,
\* none of which touches the session state.
ResumeGetCorpusInfo(c) ==
    /\ inflight[c].pc = "rest"
    /\ inflight' = [inflight EXCEPT ![c] = Idle]
    /\ UNCHANGED <<registry, state, last, assigned>>

\* addData after its resolution and imports: on success, current_corpus
\* when it has no value.
ResumeAddData(c) ==
    /\ inflight[c].pc = "import"
    /\ \E ok \in BOOLEAN :
         state' = IF ok
                  THEN setCurrentCorpusIfUnset(inflight[c],
                           inflight[c].corpus_name, state)
                  ELSE state
    /\ inflight' = [inflight EXCEPT ![c] = Idle]
    /\ UNCHANGED <<registry, last, assigned>>

\* The id the registry assigns next: ids are opaque to the session, and
\* here the registry hands them out in one order.
IdOrder == <<sN1, <<"n", "2">>, <<"n", "3">>>>

NextIds ==
    {IdOrder[k] : k \in {n \in DOMAIN IdOrder :
                            /\ IdOrder[n] \in AssignableIds
                            /\ \A m \in 1..(n - 1) : IdOrder[m] \notin AssignableIds}}

\* createCorpus after the create operation: the flag and current_corpus.
ResumeCreateCorpus(c) ==
    /\ inflight[c].pc = "create"
    /\ \E createOk \in BOOLEAN, id \in NextIds :
         LET corpusName == inflight[c].corpus_name
             displayName == replaceSpecial(corpusName)
         IN  IF createOk /\ canCreate(displayName, id)
             THEN /\ registry' = created(displayName, id)
                  /\ state' = setCurrentCorpus(corpusName,
                                  setExistsFlag(state, corpusName, TRUE))
             ELSE UNCHANGED <<registry, state>>
    /\ inflight' = [inflight EXCEPT ![c] = Idle]
    /\ assigned' = assigned \cup
           {i \in CorpusIds : resourceNameOf(i) \in Names(registry')}
    /\ UNCHANGED last

\* ragQuery is invoked with a target (its corpus_name, or current_corpus
\* read before its first await) and suspends at findBestMatchingCorpus.
BeginRagQuery(c) ==
    /\ FirstFree(c)
    /\ \E corpusName \in {sEmpty, sAb} :
         LET resolvedCorpusInput == resolvedCorpusInputOf(corpusName, state)
         IN  /\ resolvedCorpusInput # <<>>
             /\ inflight' = [inflight EXCEPT ![c] =
                    [Pending("ragQuery", corpusName, "resolve", Undefined)
                        EXCEPT !.target = resolvedCorpusInput]]
    /\ UNCHANGED <<registry, state, last, assigned>>

\* ragQuery after findBestMatchingCorpus: it returns without a match, or
\* takes the canonical name of the match and suspends at retrieveContexts.
ResumeResolve(c) ==
    /\ inflight[c].pc = "resolve"
    /\ \E listOk \in BOOLEAN :
         LET res == findBestMatchingCorpus(inflight[c].target, listRagCorpora(listOk))
         IN  inflight' = [inflight EXCEPT ![c] =
                 IF ~res.match.found THEN Idle
                 ELSE [inflight[c] EXCEPT
                          !.pc = "retrieve",
                          !.canonical = canonicalCorpusNameOf(res.match)]]
    /\ UNCHANGED <<registry, state, last, assigned>>

\* ragQuery after retrieveContexts: current_corpus when there are results.
ResumeRetrieve(c) ==
    /\ inflight[c].pc = "retrieve"
    /\ \E retrieved \in {"throws", "empty", "results"} :
         state' = IF retrieved = "results"
                  THEN setCurrentCorpus(inflight[c].canonical, state)
                  ELSE state
    /\ inflight' = [inflight EXCEPT ![c] = Idle]
    /\ UNCHANGED <<registry, last, assigned>>

InitInterleaved ==
    /\ registry \in {<<>>, <<[name |-> resourceNameOf(sN1), displayName |-> sAb]>>}
    /\ state = InitState
    /\ last = NoCall
    /\ assigned = {id \in CorpusIds : resourceNameOf(id) \in Names(registry)}
    /\ inflight = [c \in Slots |-> Idle]

NextInterleaved ==
    \E c \in Slots :
        \/ BeginChecked(c)
        \/ ResumeCheck(c)
        \/ ResumeGetCorpusInfo(c)
        \/ ResumeAddData(c)
        \/ ResumeCreateCorpus(c)
        \/ BeginRagQuery(c)
        \/ ResumeResolve(c)
        \/ ResumeRetrieve(c)

SpecInterleaved == InitInterleaved /\ [][NextInterleaved]_vars

(***************************************************************************)
(* C25.  When tool calls of one session are interleaved at their await     *)
(* points, every 'set current_corpus only if it is unset' is atomic: a     *)
(* step of checkCorpusExists or of addData changes current_corpus only     *)
(* when it has no value at that step, so no call that found it unset       *)
(* overwrites a value another call wrote in the meantime.                  *)
(***************************************************************************)
C25_SetIfUnsetIsAtomic ==
    [][ \A c \in Slots :
          ( /\ inflight[c].pc \in {"check", "import"}
            /\ inflight'[c] # inflight[c]
            /\ state'.current_corpus # state.current_corpus )
          => ~Truthy(state.current_corpus)
      ]_vars

\* An addData call was invoked while current_corpus had no value; when its
\* pre-check resumed and found its corpus, the test read the name another
\* call had written in the meantime, and that name is still in place.
C25_Witness ==
    \E c \in Slots :
        /\ inflight[c].op = "addData"
        /\ inflight[c].pc = "import"
        /\ ~Truthy(inflight[c].seen)
        /\ Truthy(inflight[c].read)
        /\ inflight[c].read.value # inflight[c].corpus_name
        /\ state.current_corpus = inflight[c].read

(***************************************************************************)
(* C26.  After createCorpus succeeded for a name n in a session, the       *)
(* created corpus is reachable under that name: a ragQuery that omits the  *)
(* corpus identifier (and so uses current_corpus = n) resolves to the      *)
(* created corpus, and addData, getCorpusInfo or deleteCorpus called with  *)
(* n resolve its resource name, for every name n, names with characters    *)
(* outside [a-zA-Z0-9_-] included.                                         *)
(***************************************************************************)
C26_CreatedCorpusReachable ==
    (last.op = "createCorpus" /\ last.outcome = "Created" /\ last.ctx) =>
        LET listing == ListingOf(registry)
            byDefault == findBestMatchingCorpus(
                             resolvedCorpusInputOf(<<>>, state), listing).match
            byName == resolveCorpusResourceName(last.corpus_name, listing).match
        IN  /\ state.current_corpus = Defined(last.corpus_name)
            /\ byDefault.found /\ byDefault.resourceName = last.handle
            /\ byName.found /\ byName.resourceName = last.handle

(***************************************************************************)
(* C27.  A true corpus_exists flag refers to a corpus that still exists,   *)
(* as far as the session's own operations go: after a successful           *)
(* deleteCorpus in the session, no identifier for which the cache still    *)
(* answers true designates the deleted corpus, also when the corpus was    *)
(* confirmed under one string (its display name) and deleted under another *)
(* (its resource name).                                                    *)
(***************************************************************************)
C27_NoFlagForDeletedCorpus ==
    [][ (last'.op = "deleteCorpus" /\ last'.outcome = "Deleted" /\ last'.ctx) =>
            \A x \in Identifiers :
                existsFlag(state', x) =>
                    ~NamesCorpus(x, CorpusNamed(registry, last'.handle))
      ]_vars

(***************************************************************************)
(* C29.  createCorpus called in a session never sends a create request for *)
(* a name whose corpus already exists in the registry (a corpus whose      *)
(* display name equals the name, or whose resource name equals its         *)
(* canonical form), also when the listing call of the pre-check fails and  *)
(* when the session cache holds no entry for the name.                     *)
(***************************************************************************)
C29_NoCreateRequestForExisting ==
    [][ ( /\ last'.op = "createCorpus"
          /\ last'.ctx
          /\ Sent(last', "createRagCorpus") )
        => \A i \in DOMAIN registry : ~NamesCorpus(last'.corpus_name, registry[i])
      ]_vars

(***************************************************************************)
(* Queries against a registry that does not change: ragQuery is the only   *)
(* tool invoked, over listings of up to MaxListing corpora.                *)
(***************************************************************************)
InitQueries ==
    /\ registry \in MatchListings
    /\ state = InitState
    /\ last = NoCall
    /\ assigned = {id \in CorpusIds : resourceNameOf(id) \in Names(registry)}
    /\ inflight = <<>>

NextQueries ==
    \/ InvokeRagQuery
    \/ TurnEnds

SpecQueries == InitQueries /\ [][NextQueries]_vars

(***************************************************************************)
(* C28: the current-corpus default is stable across queries: after a       *)
(* ragQuery that resolved to corpus c and returned results, a ragQuery     *)
(* that omits the corpus identifier resolves to the same corpus c, the     *)
(* registry listing being unchanged.                                       *)
(***************************************************************************)
C28_DefaultResolvesToSameCorpus ==
    (last.op = "ragQuery" /\ last.outcome = "Queried") =>
        LET following == findBestMatchingCorpus(resolvedCorpusInputOf(sEmpty, state),
                                                ListingOf(registry)).match
        IN  following.found /\ following.resourceName = last.handle

(***************************************************************************)
(* C30: addData reports status 'success' only when every import operation  *)
(* it started completed successfully, every validated path (Drive and      *)
(* gs://) was submitted for import, and files_added equals the number of   *)
(* files the registry reported as imported; a failed import operation      *)
(* makes addData report an error.                                          *)
(***************************************************************************)
\* The paths that reach the registry in some import configuration.
Submitted(pathsInfo) ==
    LET configs == importConfigs(pathsInfo)
    IN  UNION {{configs[i][j] : j \in DOMAIN configs[i]} : i \in DOMAIN configs}

C30_SuccessMeansAllImported ==
    (last.op = "addData" /\ last.status = "success") =>
        LET pathsInfo == parsePaths(last.paths)
        IN  /\ last.imported >= 0
            /\ last.files_added = last.imported
            /\ \A i \in DOMAIN pathsInfo.validated :
                   pathsInfo.validated[i] \in Submitted(pathsInfo)

====
